---- MODULE Spec2Model ----
(***************************************************************************)
(* A model of normalize_to_single_csv.py: the section-aware extraction of  *)
(* monthly caseload records from spreadsheet grids.                        *)
(*                                                                         *)
(* Text is modelled as a sequence of symbols.  A symbol is a single        *)
(* character ("A", "*", " ", "7") or an indivisible word or phrase (the    *)
(* marker phrase, "Monthly", a category, a month name, a county name, a    *)
(* whole "Period ... through ..." line).  Python's string operations are   *)
(* modelled on these sequences: strip, replace, lower, startswith, in.     *)
(* Rows and columns are zero-based, as in the source.                      *)
(***************************************************************************)
EXTENDS Integers, Sequences, FiniteSets, TLC

(***************************************************************************)
(* Bounds of the explored inputs.                                          *)
(***************************************************************************)
MaxSegs == 4
MaxFiles == 2
MaxEdits == 2
MaxBlank == 6
MaxCols == 18
MaxInserts == 2

(***************************************************************************)
(* Configuration of the program.                                           *)
(***************************************************************************)
SC_COUNTIES ==
  <<
    "Abbeville", "Aiken", "Allendale", "Anderson", "Bamberg", "Barnwell",
    "Beaufort", "Berkeley", "Calhoun", "Charleston", "Cherokee", "Chester",
    "Chesterfield", "Clarendon", "Colleton", "Darlington", "Dillon", "Dorchester",
    "Edgefield", "Fairfield", "Florence", "Georgetown", "Greenville", "Greenwood",
    "Hampton", "Horry", "Jasper", "Kershaw", "Lancaster", "Laurens",
    "Lee", "Lexington", "Marion", "Marlboro", "McCormick", "Newberry",
    "Oconee", "Orangeburg", "Pickens", "Richland", "Roswell", "Saluda",
    "Spartanburg", "Sumter", "Union", "Williamsburg"
  >>

EXPECTED_METRICS ==
  << <<"P", "e", "n", "d", "i", "n", "g", " ", "f", "i", "r", "s", "t", " ", "o", "f", " ", "m", "o", "n", "t", "h">>,
     <<"A", "d", "d", "e", "d">>,
     <<"D", "i", "s", "p", "o", "s", "e", "d">>,
     <<"P", "e", "n", "d", "i", "n", "g", " ", "e", "n", "d", " ", "o", "f", " ", "M", "o", "n", "t", "h">> >>

EXPECTED_METRICS_MENTAL_HEALTH ==
  << <<"A", "d", "d", "e", "d">>,
     <<"O", "r", "d", "e", "r", "s">> >>

MONTH_ORDER ==
  << "July", "August", "September", "October", "November", "December",
     "January", "February", "March", "April", "May", "June" >>

FALLBACK_COL_POSITIONS == << 2, 3, 4, 6, 7, 8, 10, 11, 12, 14, 15, 16 >>

VALID_CATEGORIES == << "Estate", "Guardian", "Conservator", "Mental Health" >>

MARKER == "South Carolina Court Administration"

\* The texts PERIOD_REGEX matches (compared in lower case: re.IGNORECASE), with
\* the two years it captures.
PERIOD_REGEX ==
  ("period 07/01/2022 through 06/30/2023" :> << 2022, 2023 >>) @@
  ("period 7/1/2023 through 6/30/2024" :> << 2023, 2024 >>)

(***************************************************************************)
(* Python's text operations on sequences of symbols.                       *)
(***************************************************************************)
LowerTab ==
  ("Abbeville" :> "abbeville") @@ ("Aiken" :> "aiken") @@ ("Allendale" :> "allendale") @@
  ("Anderson" :> "anderson") @@ ("Bamberg" :> "bamberg") @@ ("Barnwell" :> "barnwell") @@
  ("Beaufort" :> "beaufort") @@ ("Berkeley" :> "berkeley") @@ ("Calhoun" :> "calhoun") @@
  ("Charleston" :> "charleston") @@ ("Cherokee" :> "cherokee") @@
  ("Chester" :> "chester") @@ ("Chesterfield" :> "chesterfield") @@
  ("Clarendon" :> "clarendon") @@ ("Colleton" :> "colleton") @@
  ("Darlington" :> "darlington") @@ ("Dillon" :> "dillon") @@
  ("Dorchester" :> "dorchester") @@ ("Edgefield" :> "edgefield") @@
  ("Fairfield" :> "fairfield") @@ ("Florence" :> "florence") @@
  ("Georgetown" :> "georgetown") @@ ("Greenville" :> "greenville") @@
  ("Greenwood" :> "greenwood") @@ ("Hampton" :> "hampton") @@ ("Horry" :> "horry") @@
  ("Jasper" :> "jasper") @@ ("Kershaw" :> "kershaw") @@ ("Lancaster" :> "lancaster") @@
  ("Laurens" :> "laurens") @@ ("Lee" :> "lee") @@ ("Lexington" :> "lexington") @@
  ("Marion" :> "marion") @@ ("Marlboro" :> "marlboro") @@ ("McCormick" :> "mccormick") @@
  ("Newberry" :> "newberry") @@ ("Oconee" :> "oconee") @@
  ("Orangeburg" :> "orangeburg") @@ ("Pickens" :> "pickens") @@
  ("Richland" :> "richland") @@ ("Roswell" :> "roswell") @@ ("Saluda" :> "saluda") @@
  ("Spartanburg" :> "spartanburg") @@ ("Sumter" :> "sumter") @@ ("Union" :> "union") @@
  ("Williamsburg" :> "williamsburg") @@ ("July" :> "july") @@ ("August" :> "august") @@
  ("September" :> "september") @@ ("October" :> "october") @@
  ("November" :> "november") @@ ("December" :> "december") @@ ("January" :> "january") @@
  ("February" :> "february") @@ ("March" :> "march") @@ ("April" :> "april") @@
  ("May" :> "may") @@ ("June" :> "june") @@ ("AIKEN" :> "aiken") @@
  ("County" :> "county") @@ ("Estate" :> "estate") @@ ("Guardian" :> "guardian") @@
  ("Conservator" :> "conservator") @@ ("Mental Health" :> "mental health") @@
  ("Monthly" :> "monthly") @@ ("Juvenile" :> "juvenile") @@ ("Total" :> "total") @@
  ("South Carolina Court Administration" :> "south carolina court administration") @@
  ("Period 07/01/2022 through 06/30/2023" :> "period 07/01/2022 through 06/30/2023") @@
  ("PERIOD 7/1/2023 THROUGH 6/30/2024" :> "period 7/1/2023 through 6/30/2024") @@
  ("A" :> "a") @@ ("B" :> "b") @@ ("C" :> "c") @@ ("D" :> "d") @@ ("E" :> "e") @@
  ("F" :> "f") @@ ("G" :> "g") @@ ("H" :> "h") @@ ("I" :> "i") @@ ("J" :> "j") @@
  ("K" :> "k") @@ ("L" :> "l") @@ ("M" :> "m") @@ ("N" :> "n") @@ ("O" :> "o") @@
  ("P" :> "p") @@ ("Q" :> "q") @@ ("R" :> "r") @@ ("S" :> "s") @@ ("T" :> "t") @@
  ("U" :> "u") @@ ("V" :> "v") @@ ("W" :> "w") @@ ("X" :> "x") @@ ("Y" :> "y") @@
  ("Z" :> "z")

HasUpper == DOMAIN LowerTab

lower1(x) == IF x \in HasUpper THEN LowerTab[x] ELSE x

lower(s) == [i \in DOMAIN s |-> lower1(s[i])]

IsSpace(x) == x \in {" "}

strip(s) ==
  LET keep == {i \in DOMAIN s : ~IsSpace(s[i])}
      lo == CHOOSE i \in keep : \A j \in keep : i <= j
      hi == CHOOSE i \in keep : \A j \in keep : j <= i
  IN  IF keep = {} THEN << >> ELSE SubSeq(s, lo, hi)

NotStar(x) == x # "*"

NotComma(x) == x # ","

startswith(s, p) == Len(p) <= Len(s) /\ SubSeq(s, 1, Len(p)) = p

contains(s, p) ==
  IF Len(p) = 1 THEN \E i \in DOMAIN s : s[i] = p[1]
  ELSE \E i \in 0 .. (Len(s) - Len(p)) : SubSeq(s, i + 1, i + Len(p)) = p

Min(S) == CHOOSE x \in S : \A y \in S : x <= y

Max(S) == CHOOSE x \in S : \A y \in S : y <= x

RECURSIVE Flatten(_)
Flatten(ss) == IF ss = << >> THEN << >> ELSE Head(ss) \o Flatten(Tail(ss))

(***************************************************************************)
(* Cells and grids.  A cell is a text, a number or empty (NaN); a grid     *)
(* (the DataFrame read with header=None, dtype=object) has ncols columns   *)
(* and a sequence of rows, each a sequence of ncols cells.                 *)
(***************************************************************************)
Txt(s) == [t |-> "s", s |-> s, n |-> 0]

Num(n) == [t |-> "n", s |-> << >>, n |-> n]

NaN == [t |-> "nan", s |-> << >>, n |-> 0]

Digits == << "0", "1", "2", "3", "4", "5", "6", "7", "8", "9" >>

RECURSIVE IntStr(_)
IntStr(n) ==
  IF n < 10 THEN << Digits[n + 1] >> ELSE IntStr(n \div 10) \o << Digits[(n % 10) + 1] >>

\* str(v) / .astype(str)
str(c) == IF c.t = "s" THEN c.s ELSE IF c.t = "n" THEN IntStr(c.n) ELSE << "nan" >>

len(df) == Len(df.rows)

iat(df, r, c) == df.rows[r + 1][c + 1]

\* .astype(str).str.cat(sep=" ") of the cells of a row from column c on
RECURSIVE CatFrom(_, _)
CatFrom(row, c) ==
  IF c > Len(row) THEN << >>
  ELSE IF c = Len(row) THEN str(row[c])
  ELSE str(row[c]) \o << " " >> \o CatFrom(row, c + 1)

\* df.iloc[idx].astype(str).str.cat(sep=" ")
row_text(df, idx) == CatFrom(df.rows[idx + 1], 1)

(***************************************************************************)
(* Section detection.                                                      *)
(***************************************************************************)
\* re.search(r"South Carolina Court Administration\s+(.*?)\s+Monthly", text,
\* re.IGNORECASE | re.DOTALL) with the match starting at symbol i: the greedy
\* \s+ takes the whole run of spaces after the marker, the lazy group then
\* grows to the first "Monthly" preceded by a space; only when there is none
\* does \s+ give a space back, which lets a "Monthly" right after the run
\* match with an empty group.  m: whether it matches; g: match.group(1).strip().
MonthlyAt(t, j) == j \in DOMAIN t /\ lower1(t[j]) = "monthly"

NoMatch == [m |-> FALSE, g |-> << >>]

\* The last symbol of the run of spaces that follows symbol k (k when none does).
RECURSIVE SpacesEnd(_, _)
SpacesEnd(t, k) == IF k < Len(t) /\ IsSpace(t[k + 1]) THEN SpacesEnd(t, k + 1) ELSE k

CategoryMatchAt(t, i) ==
  LET e == SpacesEnd(t, i)
      far == {j \in (e + 2) .. Len(t) : MonthlyAt(t, j) /\ IsSpace(t[j - 1])}
  IN  IF lower1(t[i]) # lower1(MARKER) \/ e = i THEN NoMatch
      ELSE IF far # {} THEN [m |-> TRUE, g |-> strip(SubSeq(t, e + 1, Min(far) - 1))]
      ELSE IF e >= i + 2 /\ MonthlyAt(t, e + 1) THEN [m |-> TRUE, g |-> << >>]
      ELSE NoMatch

\* The header text: " " + row text, for the header row and the next two.
RECURSIVE HeaderText(_, _, _)
HeaderText(df, row_idx, end_row) ==
  IF row_idx >= end_row THEN << >>
  ELSE << " " >> \o row_text(df, row_idx) \o HeaderText(df, row_idx + 1, end_row)

\* for category in VALID_CATEGORIES: if category.lower() in extracted.lower()
RECURSIVE FirstCategoryIn(_, _)
FirstCategoryIn(extracted, k) ==
  IF k > Len(VALID_CATEGORIES) THEN "None"
  ELSE IF contains(lower(extracted), << lower1(VALID_CATEGORIES[k]) >>)
       THEN VALID_CATEGORIES[k]
       ELSE FirstCategoryIn(extracted, k + 1)

extract_category_from_header(df, header_row_idx) ==
  LET end_row == IF header_row_idx + 3 < len(df) THEN header_row_idx + 3 ELSE len(df)
      header_text == HeaderText(df, header_row_idx, end_row)
      starts == {i \in DOMAIN header_text : CategoryMatchAt(header_text, i).m}
  IN  IF starts = {} THEN "None"
      ELSE FirstCategoryIn(CategoryMatchAt(header_text, Min(starts)).g, 1)

\* Python's None where a pair of years is expected.
NoYears == << >>

\* PERIOD_REGEX.search(row_text): the years of the leftmost match in the row.
PeriodIn(t) ==
  LET hits == {i \in DOMAIN t : lower1(t[i]) \in DOMAIN PERIOD_REGEX}
  IN  IF hits = {} THEN NoYears ELSE PERIOD_REGEX[lower1(t[Min(hits)])]

RECURSIVE YearsFrom(_, _, _)
YearsFrom(df, row_idx, end_row) ==
  IF row_idx >= end_row THEN NoYears
  ELSE IF PeriodIn(row_text(df, row_idx)) # NoYears THEN PeriodIn(row_text(df, row_idx))
  ELSE YearsFrom(df, row_idx + 1, end_row)

extract_years_from_section(df, header_row_idx) ==
  LET end_row == IF header_row_idx + 6 < len(df) THEN header_row_idx + 6 ELSE len(df)
  IN  YearsFrom(df, header_row_idx, end_row)

\* One accepted header: (row_index, category, year_start, year_end).
Header(idx, category, years) ==
  [row |-> idx, category |-> category, year_start |-> years[1], year_end |-> years[2]]

HasMarker(df, idx) == contains(row_text(df, idx), << MARKER >>)

Accepts(category, years) == category # "None" /\ years # NoYears

\* A plausible slip: the scan ends at the first marker row that is dropped.
RECURSIVE HeaderRowsFrom_StopAtDropped(_, _)
HeaderRowsFrom_StopAtDropped(df, idx) ==
  IF idx >= len(df) THEN << >>
  ELSE LET category == extract_category_from_header(df, idx)
           years == extract_years_from_section(df, idx)
       IN  IF ~HasMarker(df, idx) THEN HeaderRowsFrom_StopAtDropped(df, idx + 1)
           ELSE IF Accepts(category, years)
           THEN << Header(idx, category, years) >> \o HeaderRowsFrom_StopAtDropped(df, idx + 1)
           ELSE << >>

RECURSIVE HeaderRowsFrom(_, _)
HeaderRowsFrom(df, idx) ==
  IF idx >= len(df) THEN << >>
  ELSE LET category == extract_category_from_header(df, idx)
           years == extract_years_from_section(df, idx)
       IN  IF HasMarker(df, idx) /\ Accepts(category, years)
           THEN << Header(idx, category, years) >> \o HeaderRowsFrom(df, idx + 1)
           ELSE HeaderRowsFrom(df, idx + 1)

find_header_rows(df) == HeaderRowsFrom(df, 0)

(***************************************************************************)
(* County rows.                                                            *)
(***************************************************************************)
IsWordSym(x) == x \notin {" ", ".", ",", "*", "-", "/"}

\* re.sub(r"\b[Cc]ounty\b\.?\,?$", "", s): the suffix the pattern matches,
\* starting at symbol i, is removed.
CountySuffixAt(s, i) ==
  /\ s[i] \in {"County", "county"}
  /\ (i = 1 \/ ~IsWordSym(s[i - 1]))
  /\ SubSeq(s, i + 1, Len(s)) \in {<< >>, << "." >>, << "," >>, << ".", "," >>}

normalize_county_name(cell_value) ==
  LET s == strip(cell_value)
      at == {i \in DOMAIN s : CountySuffixAt(s, i)}
  IN  IF at = {} THEN s ELSE strip(SubSeq(s, 1, Min(at) - 1))

\* for county in SC_COUNTIES: if name.lower() == county.lower(): ... break
RosterMatches(name) == {k \in DOMAIN SC_COUNTIES : lower(name) = << lower1(SC_COUNTIES[k]) >>}

CountyRow(county, row_pos) == [county |-> county, excel_row |-> row_pos + 1, row_pos |-> row_pos]

\* The rows scanned: df.iloc[section_start:section_end].
RECURSIVE CountyRowsFrom(_, _, _)
CountyRowsFrom(df, idx, stop) ==
  IF idx >= stop THEN << >>
  ELSE LET name == normalize_county_name(str(iat(df, idx, 0)))
       IN  IF name # << >> /\ RosterMatches(name) # {}
           THEN << CountyRow(SC_COUNTIES[Min(RosterMatches(name))], idx) >>
                \o CountyRowsFrom(df, idx + 1, stop)
           ELSE CountyRowsFrom(df, idx + 1, stop)

find_county_rows_in_section(df, section_start, section_end) ==
  CountyRowsFrom(df, section_start, IF section_end < len(df) THEN section_end ELSE len(df))

(***************************************************************************)
(* Month columns.                                                          *)
(***************************************************************************)
\* row_values = df.iloc[row_idx].astype(str).str.strip().str.lower(), by column.
row_values(df, row_idx) == [c \in 0 .. (df.ncols - 1) |-> lower(strip(str(iat(df, row_idx, c))))]

HasMonth(value, month) == contains(value, << lower1(month) >>)

\* for col_idx in range(start_col, len(row_values)): if month in ...: append; break
MonthScan(values, ncols, start_col, month) ==
  {c \in start_col .. (ncols - 1) : HasMonth(values[c], month)}

RECURSIVE MonthPositionsFrom(_, _, _, _)
MonthPositionsFrom(values, ncols, start_col, k) ==
  IF k > Len(MONTH_ORDER) THEN << >>
  ELSE LET hits == MonthScan(values, ncols, start_col, MONTH_ORDER[k])
       IN  IF hits = {} THEN MonthPositionsFrom(values, ncols, start_col, k + 1)
           ELSE << Min(hits) >> \o MonthPositionsFrom(values, ncols, start_col, k + 1)

\* The positions found in one row; << >> when no cell of the row has "july".
month_positions(df, row_idx) ==
  LET values == row_values(df, row_idx)
      july == {c \in 0 .. (df.ncols - 1) : HasMonth(values[c], "july")}
  IN  IF july = {} THEN << >>
      ELSE MonthPositionsFrom(values, df.ncols, Min(july), 1)

\* The rows searched: range(max(0, start), min(start + 5, len(df))).
LabelRows(df, section_start_row) ==
  {r \in (IF section_start_row > 0 THEN section_start_row ELSE 0)
         .. ((IF section_start_row + 5 < len(df) THEN section_start_row + 5 ELSE len(df)) - 1) :
     Len(month_positions(df, r)) = 12}

\* Whether the label search fails, so that the warning is printed.
FallsBack(df, section_start_row) == LabelRows(df, section_start_row) = {}

\* A plausible slip: the number of columns is taken for the last column index.
InGrid_OffByOne(df, p) == p <= df.ncols

InGrid(df, p) == p <= df.ncols - 1

NotFiller(i) == i \notin {5, 9, 13}

RECURSIVE Range(_, _)
Range(a, b) == IF a >= b THEN << >> ELSE << a >> \o Range(a + 1, b)

FallbackPositions(df) ==
  LET positions == SelectSeq(FALLBACK_COL_POSITIONS, LAMBDA p : InGrid(df, p))
  IN  IF Len(positions) = 12 THEN positions
      ELSE SelectSeq(Range(2, IF 17 < df.ncols THEN 17 ELSE df.ncols), NotFiller)

get_month_column_positions(df, section_start_row) ==
  LET found == LabelRows(df, section_start_row)
  IN  IF found = {} THEN FallbackPositions(df) ELSE month_positions(df, Min(found))

(***************************************************************************)
(* Values and metric labels.                                               *)
(***************************************************************************)
None == [k |-> "none", n |-> 0, f |-> << >>]

IsDigit(x) == \E d \in DOMAIN Digits : Digits[d] = x

DigitVal(x) == (CHOOSE d \in DOMAIN Digits : Digits[d] = x) - 1

RECURSIVE IntOf(_)
IntOf(s) == IF s = << >> THEN 0 ELSE 10 * IntOf(SubSeq(s, 1, Len(s) - 1)) + DigitVal(s[Len(s)])

\* int(s) succeeds: digits only (signs and underscores are not in the inputs).
IsIntText(s) == s # << >> /\ \A i \in DOMAIN s : IsDigit(s[i])

\* float(s) succeeds: digits with one point, or any text int() accepts.
IsFloatText(s) ==
  \/ IsIntText(s)
  \/ /\ Cardinality({i \in DOMAIN s : s[i] = "."}) = 1
     /\ \E i \in DOMAIN s : IsDigit(s[i])
     /\ \A i \in DOMAIN s : IsDigit(s[i]) \/ s[i] = "."

\* A float is kept as its text.
cell_to_number(v) ==
  LET s == SelectSeq(strip(str(v)), NotComma)
  IN  IF v.t = "nan" THEN None
      ELSE IF v.t = "n" THEN [k |-> "int", n |-> v.n, f |-> << >>]
      ELSE IF s = << >> THEN None
      ELSE IF contains(s, << "." >>)
           THEN (IF IsFloatText(s) THEN [k |-> "float", n |-> 0, f |-> s] ELSE None)
      ELSE IF IsIntText(s) THEN [k |-> "int", n |-> IntOf(s), f |-> << >>]
      ELSE None

\* str(raw_label).strip() if raw_label is not None else ""
metric_label(df, r) == IF df.ncols > 1 THEN strip(str(iat(df, r, 1))) ELSE << >>

\* A plausible slip: the label is stripped, its asterisks are left in.
clean_label_StripOnly(lbl) == strip(lbl)

\* lbl.replace("*", "").strip()
clean_label(lbl) == strip(SelectSeq(lbl, NotStar))

IsMentalHealth(category) == category = "Mental Health"

expected_metrics_for(category) ==
  IF IsMentalHealth(category) THEN EXPECTED_METRICS_MENTAL_HEALTH ELSE EXPECTED_METRICS

LabelMatches(clean_lbl, expected) ==
  \/ startswith(lower(clean_lbl), lower(expected))
  \/ contains(lower(clean_lbl), lower(expected))

RECURSIVE FirstExpected(_, _, _)
FirstExpected(clean_lbl, vocabulary, k) ==
  IF k > Len(vocabulary) THEN << >>
  ELSE IF LabelMatches(clean_lbl, vocabulary[k]) THEN vocabulary[k]
  ELSE FirstExpected(clean_lbl, vocabulary, k + 1)

\* The metric a label resolves to.
mapped_metric(lbl, vocabulary) ==
  LET clean_lbl == clean_label(lbl)
      found == FirstExpected(clean_lbl, vocabulary, 1)
  IN  IF found # << >> THEN found
      ELSE IF clean_lbl # << >> THEN clean_lbl
      ELSE << "Unknown Metric" >>

(***************************************************************************)
(* The input files.  A file is unreadable or holds a grid.  A grid is      *)
(* built from segments of one to three rows; its width is that of its      *)
(* widest row, the shorter rows being padded with empty cells.             *)
(***************************************************************************)
PERIOD_A == "Period 07/01/2022 through 06/30/2023"

PERIOD_B == "PERIOD 7/1/2023 THROUGH 6/30/2024"

Chars_StarOrders == << "*", "O", "r", "d", "e", "r", "s", " " >>

Chars_DisposedStar == << "D", "i", "s", "p", "o", "s", "e", "d", "*" >>

SegRows ==
  [ HM |-> << << Txt(<< MARKER, " ", "Mental Health", " ", "Monthly" >>), Txt(<< PERIOD_A >>) >> >>,
    HE |-> << << Txt(<< MARKER >>), Txt(<< "Estate", " ", "Monthly" >>), Txt(<< PERIOD_B >>) >> >>,
    HX |-> << << Txt(<< MARKER, " ", "Juvenile", " ", "Monthly" >>), Txt(<< PERIOD_A >>) >> >>,
    HP |-> << << Txt(<< MARKER, " ", "Guardian", " ", "Monthly" >>) >> >>,
    MK |-> << << Txt(<< MARKER >>) >> >>,
    ML |-> << << NaN, NaN >> \o [k \in 1 .. 12 |-> Txt(<< MONTH_ORDER[k] >>)]
                 \o << Txt(<< "Total" >>), NaN, NaN >> >>,
    C  |-> << << Txt(<< "Lee" >>) >> >>,
    CM |-> << << Txt(<< "AIKEN", " ", "County" >>) >>,
              << NaN, Txt(Chars_StarOrders), Num(7), Txt(<< "1", ",", "2" >>) >>,
              << NaN, Txt(Chars_DisposedStar), Txt(<< "n", "/", "a" >>),
                 Txt(<< "3", ".", "5" >>) >> >> ]

SegKinds == DOMAIN SegRows

Pad(row, ncols) == row \o [k \in 1 .. (ncols - Len(row)) |-> NaN]

Grid(rows) ==
  LET ncols == IF rows = << >> THEN 0 ELSE Max({Len(rows[i]) : i \in DOMAIN rows})
  IN  [ok |-> TRUE, ncols |-> ncols, rows |-> [i \in DOMAIN rows |-> Pad(rows[i], ncols)]]

GridOf(segs) == Grid(Flatten([i \in DOMAIN segs |-> SegRows[segs[i]]]))

\* pd.read_excel raises.
Unreadable == [ok |-> FALSE, ncols |-> 0, rows |-> << >>]

\* The layouts of the grids explored one at a time: every sequence of at most
\* MaxSegs segments.
Layouts == UNION {[1 .. n -> SegKinds] : n \in 0 .. MaxSegs}

\* The kinds of file a batch mixes: unreadable, without an accepted header,
\* a section without counties, a truncated county block, whole blocks, and a
\* dropped header followed by sections with a truncated and a whole block.
BatchContents ==
  { Unreadable,
    GridOf(<< "HX", "CM" >>),
    GridOf(<< "HM" >>),
    GridOf(<< "HM", "C" >>),
    GridOf(<< "HM", "CM" >>),
    GridOf(<< "HX", "C", "HE", "C", "HM", "CM" >>) }

\* The file names glob() returns, in any order.
GlobOrders(n) == {f \in [1 .. n -> 1 .. n] : \A i, j \in 1 .. n : f[i] = f[j] => i = j}

(***************************************************************************)
(* The state of the batch: the main extraction loop of the script.         *)
(***************************************************************************)
VARIABLES
  excel_files,   \* glob(...): the file names, in the order glob returned them
  contents,      \* what pd.read_excel gives for each file name
  pc,            \* "files", "sections", "counties" (the three loops), "done"
  file_idx,      \* position of the current file in sorted(excel_files)
  df,            \* the grid of the current file
  header_rows,   \* find_header_rows(df)
  section_idx,   \* position of the current section in header_rows
  section_end,   \* exclusive end row of the current section
  month_cols,    \* get_month_column_positions(df, header row)
  county_rows,   \* find_county_rows_in_section(...)
  county_idx,    \* position of the current county in county_rows
  all_entries,   \* the accumulated records
  log,           \* what was printed
  output,        \* the rows written to OUTPUT_CSV
  lbl,           \* label resolution: the raw label of column B
  decorations,   \* label resolution: the asterisks and spaces put into it
  metric,        \* label resolution: the metric it resolved to
  mdf,           \* month columns: the grid
  mstart,        \* month columns: the section start row
  mcols          \* month columns: the result

loopvars ==
  << excel_files, contents, pc, file_idx, df, header_rows, section_idx, section_end,
     month_cols, county_rows, county_idx, all_entries, log, output >>

labelvars == << lbl, decorations, metric >>

monthvars == << mdf, mstart, mcols >>

vars == << loopvars, labelvars, monthvars >>

At(s, i) == s[i + 1]

RECURSIVE Insert(_, _)
Insert(x, s) ==
  IF s = << >> THEN << x >>
  ELSE IF x <= Head(s) THEN << x >> \o s
  ELSE << Head(s) >> \o Insert(x, Tail(s))

RECURSIVE sorted(_)
sorted(s) == IF s = << >> THEN << >> ELSE Insert(Head(s), sorted(Tail(s)))

\* A plausible slip: the files are taken in the order glob returned them.
FileOrder_AsGlobbed(files) == files

\* for filepath in sorted(excel_files)
FileOrder(files) == sorted(files)

filepath == At(FileOrder(excel_files), file_idx)

Event(ev, file, section, row) == [ev |-> ev, file |-> file, section |-> section, row |-> row]

\* A plausible slip: every section runs to the end of the grid.
SectionEnd_ToGridEnd(frame, headers, idx) == len(frame)

\* A plausible slip: a section ends at the next marker row, accepted or not.
SectionEnd_AtAnyMarker(frame, headers, idx) ==
  LET later == {r \in (At(headers, idx).row + 1) .. (len(frame) - 1) : HasMarker(frame, r)}
  IN  IF later = {} THEN len(frame) ELSE Min(later)

\* Section boundaries: the next header row, or the end of the grid.
SectionEnd(frame, headers, idx) ==
  IF idx < Len(headers) - 1 THEN At(headers, idx + 1).row ELSE len(frame)

\* A plausible slip: four metric rows whatever the category.
MetricRowCount_AlwaysFour(category) == 4

\* The number of metric rows of a county block.
MetricRowCount(category) == IF IsMentalHealth(category) THEN 2 ELSE 4

metric_row_positions(category, row_pos) ==
  [i \in 1 .. MetricRowCount(category) |-> row_pos + i]

\* A plausible slip: only the end of the grid is checked, not the end of the section.
NotEnoughRows_GridOnly(frame, category, row_pos, end) ==
  row_pos + MetricRowCount(category) >= len(frame)

\* if metric_row_positions[-1] >= df.shape[0] or metric_row_positions[-1] >= section_end
NotEnoughRows(frame, category, row_pos, end) ==
  LET last == metric_row_positions(category, row_pos)[MetricRowCount(category)]
  IN  last >= len(frame) \/ last >= end

\* MONTH_ORDER[col_pos_idx], or f"Month_{col_pos_idx+1}" (kept as one name).
MonthName(col_pos_idx) ==
  IF col_pos_idx < Len(MONTH_ORDER) THEN At(MONTH_ORDER, col_pos_idx) ELSE "Month_N"

FirstHalf == {"july", "august", "september", "october", "november", "december"}

\* A plausible slip: the year is not adjusted by the month.
YearFor_StartYear(month, year_start, year_end) == year_start

YearFor(month, year_start, year_end) ==
  IF lower1(month) \in FirstHalf THEN year_start ELSE year_end

\* try: raw_value = df.iat[r, col] except Exception: raw_value = None
raw_value(frame, r, col) ==
  IF r < len(frame) /\ col < frame.ncols THEN iat(frame, r, col) ELSE NaN

\* One record.  "at" is not a field of the program's record: it keeps where
\* the record came from (section, county row, metric row, column and its
\* position in month_cols) for the properties to refer to.
Entry(file, frame, header, sidx, county, cols, metric_idx, col_pos_idx) ==
  LET r == metric_row_positions(header.category, county.row_pos)[metric_idx + 1]
      col == At(cols, col_pos_idx)
      month == MonthName(col_pos_idx)
  IN  [ file |-> file,
        category |-> header.category,
        year |-> YearFor(month, header.year_start, header.year_end),
        month |-> month,
        county |-> county.county,
        metric |-> mapped_metric(metric_label(frame, r), expected_metrics_for(header.category)),
        value |-> cell_to_number(raw_value(frame, r, col)),
        at |-> [section |-> sidx, row_pos |-> county.row_pos, r |-> r, col |-> col,
                pos |-> col_pos_idx] ]

\* The records of one county: metric rows outermost, month columns innermost.
CountyEntries(file, frame, header, sidx, county, cols) ==
  LET m == Len(cols)
  IN  [k \in 1 .. (MetricRowCount(header.category) * m) |->
         Entry(file, frame, header, sidx, county, cols, (k - 1) \div m, (k - 1) % m)]

\* A row of the CSV: the record's own fields.
CsvRow(e) ==
  [file |-> e.file, category |-> e.category, year |-> e.year, month |-> e.month,
   county |-> e.county, metric |-> e.metric, value |-> e.value]

(***************************************************************************)
(* The batch.                                                              *)
(***************************************************************************)
LabelIdle == lbl = << >> /\ decorations = 0 /\ metric = << >>

MonthIdle == mdf = Unreadable /\ mstart = 0 /\ mcols = << >>

LoopIdle ==
  /\ excel_files = << >>
  /\ contents = << >>
  /\ pc = "idle"
  /\ file_idx = 0
  /\ df = Unreadable
  /\ header_rows = << >>
  /\ section_idx = 0
  /\ section_end = 0
  /\ month_cols = << >>
  /\ county_rows = << >>
  /\ county_idx = 0
  /\ all_entries = << >>
  /\ log = << >>
  /\ output = << >>

\* One file holding a grid of any layout, or a batch of up to MaxFiles files.
Init ==
  /\ \/ \E segs \in Layouts : excel_files = << 1 >> /\ contents = << GridOf(segs) >>
     \/ \E n \in 0 .. MaxFiles :
          excel_files \in GlobOrders(n) /\ contents \in [1 .. n -> BatchContents]
  /\ pc = "files"
  /\ file_idx = 0
  /\ df = Unreadable
  /\ header_rows = << >>
  /\ section_idx = 0
  /\ section_end = 0
  /\ month_cols = << >>
  /\ county_rows = << >>
  /\ county_idx = 0
  /\ all_entries = << >>
  /\ log = IF excel_files = << >> THEN << Event("No Excel files found", 0, 0, 0) >> ELSE << >>
  /\ output = << >>
  /\ LabelIdle
  /\ MonthIdle

\* df = pd.read_excel(...) raises: the file is skipped.
ReadFails ==
  /\ pc = "files"
  /\ file_idx < Len(excel_files)
  /\ ~contents[filepath].ok
  /\ log' = log \o << Event("Processing", filepath, 0, 0),
                      Event("Failed to read", filepath, 0, 0) >>
  /\ file_idx' = file_idx + 1
  /\ UNCHANGED << labelvars, monthvars >>
  /\ UNCHANGED << excel_files, contents, pc, df, header_rows, section_idx, section_end,
                  month_cols, county_rows, county_idx, all_entries, output >>

\* if not header_rows: the file is skipped.
NoHeaders ==
  /\ pc = "files"
  /\ file_idx < Len(excel_files)
  /\ contents[filepath].ok
  /\ find_header_rows(contents[filepath]) = << >>
  /\ df' = contents[filepath]
  /\ header_rows' = << >>
  /\ log' = log \o << Event("Processing", filepath, 0, 0),
                      Event("No headers found; skipping file", filepath, 0, 0) >>
  /\ file_idx' = file_idx + 1
  /\ UNCHANGED << labelvars, monthvars >>
  /\ UNCHANGED << excel_files, contents, pc, section_idx, section_end, month_cols,
                  county_rows, county_idx, all_entries, output >>

\* The file has sections: the section loop starts.
OpenFile ==
  /\ pc = "files"
  /\ file_idx < Len(excel_files)
  /\ contents[filepath].ok
  /\ LET found == find_header_rows(contents[filepath])
     IN  found # << >> /\ header_rows' = found
  /\ df' = contents[filepath]
  /\ section_idx' = 0
  /\ pc' = "sections"
  /\ log' = log \o << Event("Processing", filepath, 0, 0),
                      Event("Found sections", filepath, Len(header_rows'), 0) >>
  /\ UNCHANGED << labelvars, monthvars >>
  /\ UNCHANGED << excel_files, contents, file_idx, section_end, month_cols, county_rows,
                  county_idx, all_entries, output >>

\* What a section prints before its counties are looked for.
SectionLog(header, cols) ==
  << Event("Processing section", filepath, section_idx + 1, header.row) >>
  \o (IF FallsBack(df, header.row)
      THEN << Event("Could not find months header, falling back", filepath,
                    section_idx + 1, header.row) >>
      ELSE << >>)
  \o (IF Len(cols) # 12
      THEN << Event("Expected 12 month columns", filepath, section_idx + 1, header.row) >>
      ELSE << >>)

\* The section loop moves to the next section, or the file loop to the next file.
EndOfSection ==
  IF section_idx + 1 < Len(header_rows)
  THEN pc' = "sections" /\ section_idx' = section_idx + 1 /\ file_idx' = file_idx
  ELSE pc' = "files" /\ section_idx' = section_idx /\ file_idx' = file_idx + 1

\* A plausible slip: break instead of continue, the rest of the file is left out.
NoCounties_EndsFile ==
  /\ pc = "sections"
  /\ LET header == At(header_rows, section_idx)
         end == SectionEnd(df, header_rows, section_idx)
     IN  /\ find_county_rows_in_section(df, header.row, end) = << >>
         /\ section_end' = end
         /\ month_cols' = get_month_column_positions(df, header.row)
         /\ county_rows' = << >>
         /\ log' = log \o SectionLog(header, month_cols')
                       \o << Event("No counties detected", filepath, section_idx + 1, header.row) >>
  /\ pc' = "files" /\ section_idx' = section_idx /\ file_idx' = file_idx + 1
  /\ UNCHANGED << labelvars, monthvars >>
  /\ UNCHANGED << excel_files, contents, df, header_rows, county_idx, all_entries, output >>

\* if not county_rows: the section is skipped.
NoCounties ==
  /\ pc = "sections"
  /\ LET header == At(header_rows, section_idx)
         end == SectionEnd(df, header_rows, section_idx)
     IN  /\ find_county_rows_in_section(df, header.row, end) = << >>
         /\ section_end' = end
         /\ month_cols' = get_month_column_positions(df, header.row)
         /\ county_rows' = << >>
         /\ log' = log \o SectionLog(header, month_cols')
                       \o << Event("No counties detected", filepath, section_idx + 1, header.row) >>
  /\ EndOfSection
  /\ UNCHANGED << labelvars, monthvars >>
  /\ UNCHANGED << excel_files, contents, df, header_rows, county_idx, all_entries, output >>

\* The section has counties: the county loop starts.
OpenSection ==
  /\ pc = "sections"
  /\ LET header == At(header_rows, section_idx)
         end == SectionEnd(df, header_rows, section_idx)
         found == find_county_rows_in_section(df, header.row, end)
     IN  /\ found # << >>
         /\ section_end' = end
         /\ month_cols' = get_month_column_positions(df, header.row)
         /\ county_rows' = found
         /\ log' = log \o SectionLog(header, month_cols')
                       \o << Event("Found counties", filepath, section_idx + 1,
                                   Len(county_rows')) >>
  /\ county_idx' = 0
  /\ pc' = "counties"
  /\ UNCHANGED << labelvars, monthvars >>
  /\ UNCHANGED << excel_files, contents, file_idx, df, header_rows, section_idx,
                  all_entries, output >>

\* The county loop moves to the next county, or the section ends.
EndOfCounty ==
  IF county_idx + 1 < Len(county_rows)
  THEN county_idx' = county_idx + 1 /\ UNCHANGED << pc, section_idx, file_idx >>
  ELSE county_idx' = county_idx /\ EndOfSection

\* Not enough rows for the metrics: the county is skipped.
SkipCounty ==
  /\ pc = "counties"
  /\ LET header == At(header_rows, section_idx)
         county == At(county_rows, county_idx)
     IN  /\ NotEnoughRows(df, header.category, county.row_pos, section_end)
         /\ log' = log \o << Event("Skipping county", filepath, section_idx + 1,
                                   county.row_pos) >>
  /\ EndOfCounty
  /\ UNCHANGED << labelvars, monthvars >>
  /\ UNCHANGED << excel_files, contents, df, header_rows, section_end, month_cols,
                  county_rows, all_entries, output >>

\* The records of one county are appended.
EmitCounty ==
  /\ pc = "counties"
  /\ LET header == At(header_rows, section_idx)
         county == At(county_rows, county_idx)
     IN  /\ ~NotEnoughRows(df, header.category, county.row_pos, section_end)
         /\ all_entries' = all_entries
              \o CountyEntries(filepath, df, header, section_idx, county, month_cols)
  /\ EndOfCounty
  /\ UNCHANGED << labelvars, monthvars >>
  /\ UNCHANGED << excel_files, contents, df, header_rows, section_end, month_cols,
                  county_rows, log, output >>

\* The file loop is over: the CSV is written.
WriteCsv ==
  /\ pc = "files"
  /\ file_idx = Len(excel_files)
  /\ output' = [k \in DOMAIN all_entries |-> CsvRow(all_entries[k])]
  /\ log' = log \o << Event("Extraction complete", 0, 0, Len(all_entries)) >>
  /\ pc' = "done"
  /\ UNCHANGED << labelvars, monthvars >>
  /\ UNCHANGED << excel_files, contents, file_idx, df, header_rows, section_idx, section_end,
                  month_cols, county_rows, county_idx, all_entries >>

Next ==
  \/ ReadFails
  \/ NoHeaders
  \/ OpenFile
  \/ NoCounties
  \/ OpenSection
  \/ SkipCounty
  \/ EmitCounty
  \/ WriteCsv

Spec == Init /\ [][Next]_vars

\* The script runs statement after statement and waits for nothing: it takes
\* steps again and again, or it has ended.  This is WF_vars(Next) with
\* ENABLED <<Next>>_vars written as pc # "done", which is what InLoop (below,
\* part of C4) establishes of the reachable states.
FairSpec == Spec /\ ([]<><<Next>>_vars \/ <>[](pc = "done"))

(***************************************************************************)
(* What the properties speak of: the accepted headers of a file, the row   *)
(* range of its k-th section (k counted from 1), the records of a county   *)
(* row, what was logged.                                                   *)
(***************************************************************************)
Files == DOMAIN contents

Headers(f) == find_header_rows(contents[f])

RangeStart(H, k) == H[k].row

RangeEnd(g, H, k) == IF k < Len(H) THEN H[k + 1].row ELSE len(g)

IsCountyRow(g, r) == RosterMatches(normalize_county_name(str(iat(g, r, 0)))) # {}

\* The county rows of a row range, as a set.
CountyRowsIn(g, lo, hi) == {r \in lo .. (hi - 1) : IsCountyRow(g, r)}

\* The positions in all_entries of the records of file f, section k, county row p.
EntriesOf(f, k, p) ==
  {i \in DOMAIN all_entries :
     /\ all_entries[i].file = f
     /\ all_entries[i].at.section = k - 1
     /\ all_entries[i].at.row_pos = p}

EntriesOfSection(f, k) ==
  {i \in DOMAIN all_entries : all_entries[i].file = f /\ all_entries[i].at.section = k - 1}

Logged(ev, f, section, row) == \E i \in DOMAIN log : log[i] = Event(ev, f, section, row)

(***************************************************************************)
(* C1.  In a grid with two or more accepted headers, the row ranges        *)
(* [header row, next header row) are ordered and disjoint, every record    *)
(* carries the category and years of the section whose range holds its     *)
(* county row, and a county row just before a header is never emitted as   *)
(* part of that header's section.                                          *)
(***************************************************************************)
C1_SectionAttribution ==
  pc = "done" =>
    \A f \in Files :
      LET g == contents[f]
          H == Headers(f)
      IN  Len(H) >= 2 =>
            /\ \A k \in 1 .. (Len(H) - 1) : RangeEnd(g, H, k) = RangeStart(H, k + 1)
                                            /\ RangeStart(H, k) < RangeEnd(g, H, k)
            /\ \A i \in DOMAIN all_entries :
                 all_entries[i].file = f =>
                   \E k \in DOMAIN H :
                     /\ RangeStart(H, k) <= all_entries[i].at.row_pos
                     /\ all_entries[i].at.row_pos < RangeEnd(g, H, k)
                     /\ all_entries[i].at.section = k - 1
                     /\ all_entries[i].category = H[k].category
                     /\ all_entries[i].year \in {H[k].year_start, H[k].year_end}
            /\ \A k \in 2 .. Len(H) : EntriesOf(f, k, RangeStart(H, k) - 1) = {}

\* Two sections of different categories, a county row just before the second
\* header, and records emitted from the second section.
C1_Witness ==
  /\ pc = "done"
  /\ \E f \in Files :
       LET H == Headers(f)
       IN  /\ Len(H) >= 2
           /\ H[1].category # H[2].category
           /\ IsCountyRow(contents[f], RangeStart(H, 2) - 1)
           /\ EntriesOfSection(f, 2) # {}

\* The number of metric rows the layout gives a category.
BlockRows(category) == IF category = "Mental Health" THEN 2 ELSE 4

\* p + n >= e or p + n >= R
BlockCut(g, H, k, p) ==
  \/ p + BlockRows(H[k].category) >= RangeEnd(g, H, k)
  \/ p + BlockRows(H[k].category) >= len(g)

(***************************************************************************)
(* C2.  Every matched county whose metric block is not skipped has exactly *)
(* n * (number of month columns of its section) records, n being 2 for     *)
(* Mental Health and 4 otherwise: one for each metric row and each         *)
(* position of the month list, also when the list is shorter than 12.      *)
(***************************************************************************)
C2_RecordCount ==
  pc = "done" =>
    \A f \in Files :
      LET g == contents[f]
          H == Headers(f)
      IN  \A k \in DOMAIN H :
            LET cols == get_month_column_positions(g, H[k].row)
                n == BlockRows(H[k].category)
            IN  \A p \in CountyRowsIn(g, RangeStart(H, k), RangeEnd(g, H, k)) :
                  ~BlockCut(g, H, k, p) =>
                    /\ Cardinality(EntriesOf(f, k, p)) = n * Len(cols)
                    /\ {<< all_entries[i].at.r, all_entries[i].at.pos >> : i \in EntriesOf(f, k, p)}
                         = ((p + 1) .. (p + n)) \X (0 .. (Len(cols) - 1))

\* A county is emitted in a section whose month list is shorter than 12.
C2_Witness ==
  /\ pc = "done"
  /\ \E f \in Files :
       LET g == contents[f]
           H == Headers(f)
       IN  \E k \in DOMAIN H :
             LET m == Len(get_month_column_positions(g, H[k].row))
             IN  /\ 0 < m /\ m < 12
                 /\ \E p \in CountyRowsIn(g, RangeStart(H, k), RangeEnd(g, H, k)) :
                      /\ ~BlockCut(g, H, k, p)
                      /\ Cardinality(EntriesOf(f, k, p)) = BlockRows(H[k].category) * m

(***************************************************************************)
(* C3.  A record's month is the entry of July .. June at the position of   *)
(* its column in the month list of its section; its year is the start year *)
(* of the section for July .. December and the end year for January ..     *)
(* June.                                                                   *)
(***************************************************************************)
C3_YearByMonth ==
  pc = "done" =>
    \A f \in Files :
      LET g == contents[f]
          H == Headers(f)
      IN  \A k \in DOMAIN H :
            LET cols == get_month_column_positions(g, H[k].row)
            IN  \A i \in EntriesOfSection(f, k) :
                  LET e == all_entries[i]
                  IN  /\ e.at.pos \in 0 .. (Len(cols) - 1)
                      /\ cols[e.at.pos + 1] = e.at.col
                      /\ e.at.pos < 12
                      /\ e.month = << "July", "August", "September", "October", "November",
                                      "December", "January", "February", "March", "April",
                                      "May", "June" >>[e.at.pos + 1]
                      /\ e.at.pos < 6 => e.year = H[k].year_start
                      /\ e.at.pos >= 6 => e.year = H[k].year_end

\* Records of both halves of a reporting year whose start and end years differ.
C3_Witness ==
  /\ pc = "done"
  /\ \E i, j \in DOMAIN all_entries :
       /\ all_entries[i].file = all_entries[j].file
       /\ all_entries[i].at.section = all_entries[j].at.section
       /\ all_entries[i].month = "December"
       /\ all_entries[j].month = "January"
       /\ all_entries[j].year = all_entries[i].year + 1

(***************************************************************************)
(* C5.  A matched county at row p is skipped, with no record, exactly when *)
(* p + n >= e or p + n >= R (e the end of its section, R the number of     *)
(* rows); otherwise the metric rows read are p+1 .. p+n, all below e and   *)
(* R.  The counties after a skipped one are still gone through.            *)
(***************************************************************************)
C5_SkipRule ==
  pc = "done" =>
    \A f \in Files :
      LET g == contents[f]
          H == Headers(f)
      IN  \A k \in DOMAIN H :
            LET cols == get_month_column_positions(g, H[k].row)
                n == BlockRows(H[k].category)
            IN  \A p \in CountyRowsIn(g, RangeStart(H, k), RangeEnd(g, H, k)) :
                  /\ BlockCut(g, H, k, p) <=> Logged("Skipping county", f, k, p)
                  /\ BlockCut(g, H, k, p) => EntriesOf(f, k, p) = {}
                  /\ \A i \in EntriesOf(f, k, p) :
                       /\ all_entries[i].at.r \in (p + 1) .. (p + n)
                       /\ all_entries[i].at.r < RangeEnd(g, H, k)
                       /\ all_entries[i].at.r < len(g)
                  /\ (~BlockCut(g, H, k, p) /\ cols # << >>) =>
                       {all_entries[i].at.r : i \in EntriesOf(f, k, p)} = (p + 1) .. (p + n)

\* A section where a county is emitted, a later one is skipped and one after
\* the skipped one is gone through as well.
C5_Witness ==
  /\ pc = "done"
  /\ \E f \in Files :
       LET g == contents[f]
           H == Headers(f)
       IN  \E k \in DOMAIN H :
             \E p1, p2, p3 \in CountyRowsIn(g, RangeStart(H, k), RangeEnd(g, H, k)) :
               /\ p1 < p2 /\ p2 < p3
               /\ EntriesOf(f, k, p1) # {}
               /\ Logged("Skipping county", f, k, p2)
               /\ Logged("Skipping county", f, k, p3)

\* The files in the order their processing was announced.
Visited == SelectSeq(log, LAMBDA ev : ev.ev = "Processing")

\* The batch went through every file once, in increasing order of name, and
\* through every section of every file that has sections.
VisitedAllSorted ==
  /\ Len(Visited) = Len(excel_files)
  /\ {Visited[i].file : i \in DOMAIN Visited} = {excel_files[i] : i \in DOMAIN excel_files}
  /\ \A i \in 1 .. (Len(Visited) - 1) : Visited[i].file < Visited[i + 1].file
  /\ \A f \in Files :
       \A k \in DOMAIN Headers(f) : Logged("Processing section", f, k, Headers(f)[k].row)

\* Short of the end, the loop stands at a file, a section or a county that
\* exists (or past the last file, before the writing), so that one of the
\* branches of the loop body applies.
InLoop ==
  \/ pc = "done"
  \/ pc = "files" /\ file_idx <= Len(excel_files)
  \/ pc = "sections" /\ file_idx < Len(excel_files) /\ section_idx < Len(header_rows)
  \/ /\ pc = "counties"
     /\ file_idx < Len(excel_files)
     /\ section_idx < Len(header_rows)
     /\ county_idx < Len(county_rows)

\* A step keeps the records accumulated so far, in place.
KeepsEntries ==
  /\ Len(all_entries') >= Len(all_entries)
  /\ \A i \in DOMAIN all_entries : all_entries'[i] = all_entries[i]

(***************************************************************************)
(* C4.  Whatever the file set and the grids, the batch visits every file   *)
(* in sorted order and reaches the writing of the CSV; no step, a skip of  *)
(* a file, section or county included, removes or changes a record already *)
(* accumulated, and a skip does not keep the later files from being        *)
(* processed.                                                              *)
(***************************************************************************)
C4_BatchCompletes ==
  /\ []InLoop
  /\ <>(pc = "done")
  /\ [][KeepsEntries]_vars
  /\ [](pc = "done" => VisitedAllSorted /\ Len(output) = Len(all_entries))

\* glob returned two files out of order; the first in sorted order has a
\* skipped county and then emitted records, the second cannot be read; the
\* CSV is written with the records of the first.
C4_Witness ==
  /\ pc = "done"
  /\ excel_files = << 2, 1 >>
  /\ ~contents[2].ok
  /\ \E k \in DOMAIN Headers(1), p \in 0 .. len(contents[1]) : Logged("Skipping county", 1, k, p)
  /\ \E i \in DOMAIN all_entries : all_entries[i].file = 1
  /\ Logged("Failed to read", 2, 0, 0)
  /\ Len(output) = Len(all_entries)

\* The roster name a county row stands for.
CountyOf(g, r) == SC_COUNTIES[Min(RosterMatches(normalize_county_name(str(iat(g, r, 0)))))]

\* The first row of a section that stands for the same county as row p.
FirstRowOf(g, H, k, p) ==
  Min({r \in CountyRowsIn(g, RangeStart(H, k), RangeEnd(g, H, k)) : CountyOf(g, r) = CountyOf(g, p)})

(***************************************************************************)
(* C6.  When a county occupies several rows of a section, the section has  *)
(* one match for it and only its first row yields records.                 *)
(***************************************************************************)
C6_FirstMatchOnly ==
  /\ pc = "counties" =>
       \A i, j \in DOMAIN county_rows : county_rows[i].county = county_rows[j].county => i = j
  /\ pc = "done" =>
       \A f \in Files :
         \A k \in DOMAIN Headers(f) :
           \A i \in EntriesOfSection(f, k) :
             all_entries[i].at.row_pos
               = FirstRowOf(contents[f], Headers(f), k, all_entries[i].at.row_pos)

(***************************************************************************)
(* C6, what the code does.  Every row of a section whose first cell stands *)
(* for a roster county is a match of its own: the matches of the section   *)
(* are its county rows in increasing row order, repeated counties          *)
(* included, and every occurrence whose metric block is not skipped yields *)
(* its records, under the county's name.                                   *)
(***************************************************************************)
C6_EveryMatchUsed ==
  /\ pc = "counties" =>
       LET rows == CountyRowsIn(df, At(header_rows, section_idx).row, section_end)
       IN  /\ Len(county_rows) = Cardinality(rows)
           /\ \A i \in DOMAIN county_rows :
                /\ county_rows[i].row_pos \in rows
                /\ county_rows[i].county = CountyOf(df, county_rows[i].row_pos)
                /\ county_rows[i].excel_row = county_rows[i].row_pos + 1
           /\ \A i \in 1 .. (Len(county_rows) - 1) :
                county_rows[i].row_pos < county_rows[i + 1].row_pos
  /\ pc = "done" =>
       \A f \in Files :
         LET g == contents[f]
             H == Headers(f)
         IN  \A k \in DOMAIN H :
               LET m == Len(get_month_column_positions(g, H[k].row))
               IN  \A p \in CountyRowsIn(g, RangeStart(H, k), RangeEnd(g, H, k)) :
                     (FirstRowOf(g, H, k, p) < p /\ ~BlockCut(g, H, k, p)) =>
                       /\ Cardinality(EntriesOf(f, k, p)) = BlockRows(H[k].category) * m
                       /\ \A i \in EntriesOf(f, k, p) : all_entries[i].county = CountyOf(g, p)

\* A county occupies two rows of a section and both yield records.
C6_Witness ==
  /\ pc = "done"
  /\ \E f \in Files :
       LET g == contents[f]
           H == Headers(f)
       IN  \E k \in DOMAIN H :
             \E p \in CountyRowsIn(g, RangeStart(H, k), RangeEnd(g, H, k)) :
               /\ FirstRowOf(g, H, k, p) < p
               /\ EntriesOf(f, k, p) # {}
               /\ EntriesOf(f, k, FirstRowOf(g, H, k, p)) # {}

\* The marker rows of a grid for which a category and a period are recovered.
AcceptedRows(g) ==
  {r \in 0 .. (len(g) - 1) :
     /\ HasMarker(g, r)
     /\ extract_category_from_header(g, r) # "None"
     /\ extract_years_from_section(g, r) # NoYears}

\* The marker rows of a grid that are dropped.
DroppedRows(g) == {r \in 0 .. (len(g) - 1) : HasMarker(g, r) /\ r \notin AcceptedRows(g)}

(***************************************************************************)
(* C8.  The headers found in a grid are, in increasing row order, exactly  *)
(* the marker rows for which both a category and a period are recovered,   *)
(* each with the category and the years recovered from it: a dropped       *)
(* marker row gives no section and does not keep later marker rows from    *)
(* being accepted.  A readable file without an accepted header is reported *)
(* as skipped and has no record.                                           *)
(***************************************************************************)
C8_HeaderRows ==
  /\ pc # "counties" =>
       /\ Len(header_rows) = Cardinality(AcceptedRows(df))
       /\ \A i \in DOMAIN header_rows :
            LET years == extract_years_from_section(df, header_rows[i].row)
            IN  /\ header_rows[i].row \in AcceptedRows(df)
                /\ header_rows[i].category = extract_category_from_header(df, header_rows[i].row)
                /\ header_rows[i].year_start = years[1]
                /\ header_rows[i].year_end = years[2]
       /\ \A i \in 1 .. (Len(header_rows) - 1) : header_rows[i].row < header_rows[i + 1].row
  /\ pc = "done" =>
       \A f \in Files :
         (contents[f].ok /\ AcceptedRows(contents[f]) = {}) =>
           /\ Logged("No headers found; skipping file", f, 0, 0)
           /\ \A i \in DOMAIN all_entries : all_entries[i].file # f

\* A batch with a file whose only marker row is dropped, skipped without a
\* record, and a file where a dropped marker row comes before accepted ones
\* whose sections yield records.
C8_Witness ==
  /\ pc = "done"
  /\ \E f, g \in Files :
       /\ contents[f].ok
       /\ DroppedRows(contents[f]) # {}
       /\ AcceptedRows(contents[f]) = {}
       /\ Logged("No headers found; skipping file", f, 0, 0)
       /\ \E r \in DroppedRows(contents[g]) :
            \E k \in DOMAIN Headers(g) :
              r < Headers(g)[k].row /\ EntriesOfSection(g, k) # {}

\* The records of file f, section k, in the order they were appended.
SectionRecords(f, k) ==
  SelectSeq(all_entries, LAMBDA e : e.file = f /\ e.at.section = k - 1)

\* What section k of file f emits when taken on its own: the records of its
\* county rows that are not cut, in row order.
SectionAlone(f, k) ==
  LET g == contents[f]
      H == Headers(f)
      rows == find_county_rows_in_section(g, RangeStart(H, k), RangeEnd(g, H, k))
      kept == SelectSeq(rows, LAMBDA c : ~BlockCut(g, H, k, c.row_pos))
      cols == get_month_column_positions(g, H[k].row)
  IN  Flatten([i \in DOMAIN kept |-> CountyEntries(f, g, H[k], k - 1, kept[i], cols)])

(***************************************************************************)
(* C9.  A section none of whose rows has a roster county in its first cell *)
(* has no record and is logged as having no counties; the sections after   *)
(* it are gone through and their records are those they emit on their own. *)
(***************************************************************************)
C9_NoCountySection ==
  pc = "done" =>
    \A f \in Files :
      LET g == contents[f]
          H == Headers(f)
      IN  \A k \in DOMAIN H :
            CountyRowsIn(g, RangeStart(H, k), RangeEnd(g, H, k)) = {} =>
              /\ EntriesOfSection(f, k) = {}
              /\ Logged("No counties detected", f, k, H[k].row)
              /\ \A j \in (k + 1) .. Len(H) :
                   /\ Logged("Processing section", f, j, H[j].row)
                   /\ SectionRecords(f, j) = SectionAlone(f, j)

\* A section without counties is followed by a section that yields records.
C9_Witness ==
  /\ pc = "done"
  /\ \E f \in Files :
       LET g == contents[f]
           H == Headers(f)
       IN  \E k \in 1 .. (Len(H) - 1) :
             /\ CountyRowsIn(g, RangeStart(H, k), RangeEnd(g, H, k)) = {}
             /\ Logged("No counties detected", f, k, H[k].row)
             /\ EntriesOfSection(f, k + 1) # {}

(***************************************************************************)
(* Label resolution on its own: the label of a metric row, as the main     *)
(* loop reads and maps it, for labels decorated with asterisks and spaces. *)
(***************************************************************************)
\* The labels before decoration: vocabulary entries in several cases, labels
\* holding two entries, labels outside the vocabulary, the empty label.
LabelSeeds ==
  { << >>,
    << "A", "d", "d", "e", "d" >>,
    << "A", "D", "D", "E", "D" >>,
    << "O", "r", "d", "e", "r", "s" >>,
    << "D", "i", "s", "p", "o", "s", "e", "d" >>,
    << "T", "o", "t", "a", "l" >>,
    << "N", "e", "w", " ", "A", "d", "d", "e", "d" >>,
    << "O", "r", "d", "e", "r", "s", " ", "A", "d", "d", "e", "d" >>,
    << "P", "e", "n", "d", "i", "n", "g", " ", "f", "i", "r", "s", "t", " ", "o", "f", " ", "m", "o", "n", "t", "h" >>,
    << "P", "e", "n", "d", "i", "n", "g", " ", "e", "n", "d", " ", "o", "f", " ", "M", "o", "n", "t", "h" >>,
    << "P", "e", "n", "d", "i", "n", "g", " ", "e", "n", "d" >> }

LabelCategories == {"Estate", "Mental Health"}

\* raw_label -> str(raw_label).strip() -> mapped metric, for a category
Resolve(raw_label, category) ==
  mapped_metric(strip(raw_label), expected_metrics_for(category))

InsertAt(s, pos, x) == SubSeq(s, 1, pos) \o << x >> \o SubSeq(s, pos + 1, Len(s))

InitLabel ==
  /\ LoopIdle
  /\ MonthIdle
  /\ lbl \in LabelSeeds
  /\ decorations = 0
  /\ metric = [c \in LabelCategories |-> Resolve(lbl, c)]

\* The workbook has one more asterisk in the label; the label is resolved.
AddAsterisk ==
  /\ decorations < MaxInserts
  /\ \E pos \in 0 .. Len(lbl) : lbl' = InsertAt(lbl, pos, "*")
  /\ decorations' = decorations + 1
  /\ metric' = [c \in LabelCategories |-> Resolve(lbl', c)]
  /\ UNCHANGED << loopvars, monthvars >>

\* The workbook has one more space in the label; the label is resolved.
AddSpace ==
  /\ decorations < MaxInserts
  /\ \E pos \in 0 .. Len(lbl) : lbl' = InsertAt(lbl, pos, " ")
  /\ decorations' = decorations + 1
  /\ metric' = [c \in LabelCategories |-> Resolve(lbl', c)]
  /\ UNCHANGED << loopvars, monthvars >>

NextLabel ==
  \/ AddAsterisk
  \/ AddSpace

SpecLabel == InitLabel /\ [][NextLabel]_vars

\* p occurs in s as a run of consecutive characters.
IsInfix(p, s) == \E i \in 0 .. (Len(s) - Len(p)) : SubSeq(s, i + 1, i + Len(p)) = p

WithoutAsterisks(s) == SelectSeq(s, LAMBDA x : x # "*")

(***************************************************************************)
(* C10.  Wherever asterisks stand in a label, and whatever spaces surround *)
(* them, the metric it resolves to is that of the label without its        *)
(* asterisks: the first entry of the category's vocabulary, in vocabulary  *)
(* order, that the cleaned label starts with or contains, case ignored;    *)
(* else the cleaned label when it is not empty; else "Unknown Metric".     *)
(***************************************************************************)
C10_AsteriskFree ==
  \A c \in LabelCategories :
    LET vocabulary == IF c = "Mental Health" THEN EXPECTED_METRICS_MENTAL_HEALTH
                      ELSE EXPECTED_METRICS
        cleaned == strip(WithoutAsterisks(lbl))
        hits == {k \in DOMAIN vocabulary : IsInfix(lower(vocabulary[k]), lower(cleaned))}
    IN  /\ metric[c] = Resolve(WithoutAsterisks(lbl), c)
        /\ metric[c] = IF hits # {} THEN vocabulary[Min(hits)]
                       ELSE IF cleaned # << >> THEN cleaned
                       ELSE << "Unknown Metric" >>

\* A label with an asterisk inside a word and another one at its end, which
\* resolves to a vocabulary entry; without the asterisks it is not the entry
\* itself.
C10_Witness ==
  /\ decorations = 2
  /\ Len(lbl) - Len(WithoutAsterisks(lbl)) = 2
  /\ lbl[Len(lbl)] = "*"
  /\ \E i \in 2 .. (Len(lbl) - 1) : lbl[i] = "*" /\ lbl[i - 1] # " " /\ lbl[i + 1] # " "
  /\ metric["Estate"] = EXPECTED_METRICS[2]
  /\ WithoutAsterisks(lbl) # EXPECTED_METRICS[2]

(***************************************************************************)
(* get_month_column_positions on its own, for label rows that depart from  *)
(* the twelve month names in twelve consecutive cells, for label rows out  *)
(* of the rows searched, and for grids without a label row.                *)
(***************************************************************************)
\* The label row of the workbooks: two empty cells, July .. June, "Total".
BaseLabelRow == SegRows.ML[1]

\* What a cell of a label row is changed to: emptied, a month that stands
\* elsewhere in the row, a cell naming two months.
EditCells ==
  { NaN, Txt(<< "August" >>), Txt(<< "September" >>),
    Txt(<< "July", " ", "-", " ", "June" >>) }

\* The label rows with at most n cells changed.
RECURSIVE EditedRows(_)
EditedRows(n) ==
  IF n = 0 THEN {BaseLabelRow}
  ELSE LET less == EditedRows(n - 1)
       IN  less \cup {[row EXCEPT ![c] = v] : row \in less, c \in DOMAIN BaseLabelRow,
                                               v \in EditCells}

BlankRows(n, ncols) == [i \in 1 .. n |-> [c \in 1 .. ncols |-> NaN]]

\* A changed label row at the section start; the label row after some empty
\* rows, within the rows searched or past them; no label row, for any width.
MonthInputs ==
  {[g |-> Grid(<< row >>), s |-> 0] : row \in EditedRows(MaxEdits)}
    \cup {[g |-> Grid(BlankRows(b, 1) \o << BaseLabelRow >>), s |-> s] :
            b \in 0 .. MaxBlank, s \in 0 .. 1}
    \cup {[g |-> Grid(BlankRows(1, w)), s |-> 0] : w \in 0 .. MaxCols}

InitMonth ==
  /\ LoopIdle
  /\ LabelIdle
  /\ \E in \in MonthInputs : mdf = in.g /\ mstart = in.s
  /\ mcols = << >>

\* A row searched has "july" and a cell for each of the twelve months.
LabelPath ==
  /\ pc = "idle"
  /\ ~FallsBack(mdf, mstart)
  /\ mcols' = get_month_column_positions(mdf, mstart)
  /\ pc' = "located"
  /\ UNCHANGED << mdf, mstart, labelvars >>
  /\ UNCHANGED << excel_files, contents, file_idx, df, header_rows, section_idx, section_end,
                  month_cols, county_rows, county_idx, all_entries, log, output >>

\* No row searched does: the warning is printed, the positions are the template's.
FallbackPath ==
  /\ pc = "idle"
  /\ FallsBack(mdf, mstart)
  /\ mcols' = get_month_column_positions(mdf, mstart)
  /\ log' = log \o << Event("Could not find months header, falling back", 0, 0, mstart) >>
  /\ pc' = "located"
  /\ UNCHANGED << mdf, mstart, labelvars >>
  /\ UNCHANGED << excel_files, contents, file_idx, df, header_rows, section_idx, section_end,
                  month_cols, county_rows, county_idx, all_entries, output >>

NextMonth ==
  \/ LabelPath
  \/ FallbackPath

SpecMonth == InitMonth /\ [][NextMonth]_vars

\* The row the label path returns from: the first row searched with "july".
\* (Of the inputs explored, only the label row has it.)
JulyRows ==
  {r \in 0 .. (len(mdf) - 1) :
     /\ mstart <= r /\ r < mstart + 5
     /\ \E c \in 0 .. (mdf.ncols - 1) : HasMonth(row_values(mdf, r)[c], "july")}

\* The first column at or after column from whose text has the month, or -1.
FirstColumnWith(r, from, month) ==
  LET hits == {c \in from .. (mdf.ncols - 1) : HasMonth(row_values(mdf, r)[c], month)}
  IN  IF hits = {} THEN -1 ELSE Min(hits)

(***************************************************************************)
(* C7.  When get_month_column_positions returns by the label path (no      *)
(* fallback warning), its result is twelve distinct columns in increasing  *)
(* order, the i-th being the first column at or after the one chosen for   *)
(* the month before whose text has the i-th month of July .. June; only    *)
(* the fallback path returns a list with a repeated column.                *)
(***************************************************************************)
C7_LabelPathIncreasing ==
  pc = "located" =>
    /\ ~FallsBack(mdf, mstart) =>
         /\ Len(mcols) = 12
         /\ \A i \in 1 .. 11 : mcols[i] < mcols[i + 1]
         /\ \A i \in 1 .. 12 :
              mcols[i] = FirstColumnWith(Min(JulyRows), IF i = 1 THEN 0 ELSE mcols[i - 1],
                                         MONTH_ORDER[i])
    /\ (\E i, j \in DOMAIN mcols : i < j /\ mcols[i] = mcols[j]) => FallsBack(mdf, mstart)

\* The positional template: columns C .. Q less the filler columns F, J, N.
Template == << 2, 3, 4, 6, 7, 8, 10, 11, 12, 14, 15, 16 >>

\* The warning of the fallback was printed for the call.
FellBack == Logged("Could not find months header, falling back", 0, 0, mstart)

(***************************************************************************)
(* C11.  When the label path fails, the result for a grid of C columns is  *)
(* the increasing list of the indices i with 2 <= i <= 16, i not in        *)
(* {5, 9, 13} and i < C: the whole template when C >= 17, a prefix of it   *)
(* (possibly empty) otherwise; never more than 12 entries, never an index  *)
(* outside the columns of the grid.                                        *)
(***************************************************************************)
C11_FallbackTemplate ==
  (pc = "located" /\ FellBack) =>
    /\ \A i \in 1 .. (Len(mcols) - 1) : mcols[i] < mcols[i + 1]
    /\ {mcols[i] : i \in DOMAIN mcols}
         = {i \in 2 .. 16 : i \notin {5, 9, 13} /\ i < mdf.ncols}
    /\ mdf.ncols >= 17 => mcols = Template
    /\ Len(mcols) <= 12
    /\ mcols = SubSeq(Template, 1, Len(mcols))
    /\ \A i \in DOMAIN mcols : 0 <= mcols[i] /\ mcols[i] < mdf.ncols

\* The fallback on a grid too narrow for the template, wide enough to reach
\* past a filler column: a proper, non-empty prefix that leaves column 5 out.
C11_Witness ==
  /\ pc = "located"
  /\ FellBack
  /\ mdf.ncols < 17
  /\ Len(mcols) >= 4
  /\ Len(mcols) < 12
  /\ mcols[4] = 6

\* The first accepted marker row after row h, or the end of the grid.
NextAccepted(g, h) ==
  LET later == {r \in AcceptedRows(g) : r > h}
  IN  IF later = {} THEN len(g) ELSE Min(later)

\* The positions in all_entries of the records of file f that come from the
\* county row p, whatever their section.
EntriesAt(f, p) ==
  {i \in DOMAIN all_entries : all_entries[i].file = f /\ all_entries[i].at.row_pos = p}

\* The county rows of g below a dropped marker row that itself lies below the
\* accepted marker row h, and above the next accepted one.
BelowDropped(g, h) ==
  {p \in CountyRowsIn(g, h, NextAccepted(g, h)) :
     \E d \in DroppedRows(g) : h < d /\ d < p}

(***************************************************************************)
(* C12.  Sections end at accepted headers only: a dropped marker row does  *)
(* not end the accepted section before it, so that a county block below a  *)
(* dropped marker row and above the next accepted header (or the end of    *)
(* the grid) yields its records, with the category and the years of the    *)
(* accepted section before it; a county row above the first accepted       *)
(* header yields none.                                                     *)
(***************************************************************************)
C12_DroppedHeaderKeepsSection ==
  pc = "done" =>
    \A f \in Files :
      LET g == contents[f]
      IN  /\ \A h \in AcceptedRows(g) :
               LET category == extract_category_from_header(g, h)
                   years == extract_years_from_section(g, h)
                   n == BlockRows(category)
                   m == Len(get_month_column_positions(g, h))
               IN  \A p \in BelowDropped(g, h) :
                     (p + n < NextAccepted(g, h) /\ p + n < len(g)) =>
                       /\ Cardinality(EntriesAt(f, p)) = n * m
                       /\ \A i \in EntriesAt(f, p) :
                            /\ all_entries[i].category = category
                            /\ all_entries[i].year \in {years[1], years[2]}
          /\ \A i \in DOMAIN all_entries :
               all_entries[i].file = f =>
                 \E h \in AcceptedRows(g) : h <= all_entries[i].at.row_pos

\* A grid with a county block above its first accepted header, which yields
\* nothing, and one below a dropped marker row, which yields records of the
\* accepted section before that row.
C12_Witness ==
  /\ pc = "done"
  /\ \E f \in Files :
       LET g == contents[f]
       IN  /\ \E p \in 0 .. (len(g) - 1) :
                /\ IsCountyRow(g, p)
                /\ \A h \in AcceptedRows(g) : p < h
                /\ EntriesAt(f, p) = {}
           /\ \E h \in AcceptedRows(g) :
                \E p \in BelowDropped(g, h) :
                  /\ EntriesAt(f, p) # {}
                  /\ \A i \in EntriesAt(f, p) :
                       all_entries[i].category = extract_category_from_header(g, h)

====
